---- MODULE Spec2Model ----
(***************************************************************************)
(* The quiz page (src/Gen-Ai/quiz.js) as a state machine.  The state is    *)
(* the four module-level variables of quiz.js, the part of the document    *)
(* the handlers write, the browser's table of running intervals, the       *)
(* wall clock, and the HTTP exchanges in flight.  Every handler is one     *)
(* action; an async function is one action up to its await and one action  *)
(* per way the awaited call can settle.                                    *)
(*                                                                         *)
(* JavaScript arrays are 0-based; the sequences below are 1-based, so the  *)
(* element the code calls answers[i] is currentAnswers[i + 1] here.        *)
(***************************************************************************)
EXTENDS Integers, Sequences, FiniteSets, TLC

\* ---------------------------------------------------------------- bounds
MaxQuestions == 2      \* longest quiz the backend returns
MaxPending == 2        \* /api/quiz requests in flight at once
MaxSessions == 2       \* quizzes the backend generates in one run
MaxSeconds == 1        \* ticks counted by one interval
MaxHalfSeconds == 2    \* how far the wall clock advances, in half seconds
MaxReports == 2        \* /api/submit-quiz requests issued in one run
MaxEvents == 7         \* events handled in one run
MaxTotal == 404        \* largest question count given to the banding
MaxAsks == 3           \* /api/ask requests sent in one run

\* ------------------------------------------------------ program constants
MsPerSecond == 1000
ExcellentMin == 80
GoodMin == 60
TopK == 3

\* --------------------------------------------------------------- values
\* null and a value are told apart by the length of a tuple.
None == <<>>
Some(x) == <<x>>

\* An entry of currentAnswers: an option key, null, or a hole of a sparse array.
Null == "null"
Hole == "undefined"

NotAnswered == "Not answered"

VARIABLES
    currentQuiz,     \* quiz.js:3   None or Some(payload)
    currentAnswers,  \* quiz.js:4   sequence of keys, Null and Hole
    quizStartTime,   \* quiz.js:5   None or Some(ms)
    timerInterval,   \* quiz.js:6   None or Some(interval id)
    intervals,       \* the browser's running intervals: id -> the closure's `seconds`
    intervalsIssued, \* how many interval ids setInterval has handed out
    now,             \* Date.now(), in ms
    pending,         \* bodies of the /api/quiz requests awaiting a response
    quizzesIssued,   \* how many quizzes the backend has generated
    reports,         \* /api/submit-quiz requests: [body, status]
    dom,             \* what the handlers have written to the document
    lastEvent,       \* the handler that ran last and what it did (history)
    submitted,       \* history: displayResults has run for the present session
    events,          \* how many events have been handled
    input,           \* arguments of displayResults when it is checked on its own
    asks,            \* query.js: ids of the /api/ask requests awaiting a response
    asksIssued,      \* query.js: how many /api/ask requests askQuestion has sent
    queryDom,        \* query.js: what the handlers have written to the query page
    formWasReset     \* history: resetForm has run on the query page

vars == <<currentQuiz, currentAnswers, quizStartTime, timerInterval, intervals,
          intervalsIssued, now, pending, quizzesIssued, reports, dom, lastEvent,
          submitted, events, input, asks, asksIssued, queryDom, formWasReset>>

session == <<currentQuiz, currentAnswers, quizStartTime, timerInterval>>

\* The state of the query page (query.js) and that of the quiz page (quiz.js).
queryVars == <<asks, asksIssued, queryDom, formWasReset>>

quizVars == <<session, intervals, intervalsIssued, now, pending, quizzesIssued, reports,
              dom, submitted, input>>

\* ------------------------------------------------------- the input domain
\* Values of the #quiz-subject select and of the #num-questions field, the
\* latter as the characters typed.
SubjectInputs == {"", "DBMS"}
NumInputs == {<<>>, <<"a">>, <<"0">>, <<"-", "1">>, <<"2">>}

Digit == ("0" :> 0) @@ ("1" :> 1) @@ ("2" :> 2) @@ ("3" :> 3) @@ ("4" :> 4) @@
         ("5" :> 5) @@ ("6" :> 6) @@ ("7" :> 7) @@ ("8" :> 8) @@ ("9" :> 9)

RECURSIVE SkipSpaces(_)
SkipSpaces(s) ==
    IF s # <<>> /\ Head(s) = " " THEN SkipSpaces(Tail(s)) ELSE s

\* The value of the longest prefix of digits of s, None when s starts with no digit.
RECURSIVE ReadDigits(_, _)
ReadDigits(s, acc) ==
    IF s # <<>> /\ Head(s) \in DOMAIN Digit
    THEN ReadDigits(Tail(s), Some((IF acc = None THEN 0 ELSE acc[1]) * 10 + Digit[Head(s)]))
    ELSE acc

\* parseInt(string): None is NaN.
parseInt(str) ==
    LET s == SkipSpaces(str)
        signed == s # <<>> /\ Head(s) \in {"+", "-"}
        mag == ReadDigits(IF signed THEN Tail(s) ELSE s, None)
    IN IF mag = None THEN None
       ELSE IF signed /\ Head(s) = "-" THEN Some(0 - mag[1]) ELSE mag

\* ------------------------------------------------------ backend payloads
Q1 == [options |-> [A |-> "alpha", B |-> "beta"], correct |-> "A", explanation |-> "why"]
Q2 == [options |-> [B |-> "beta", C |-> "gamma"], correct |-> "C", explanation |-> ""]
QuestionPool == {Q1, Q2}

\* The question lists the backend answers with: every length up to
\* MaxQuestions (an empty list included), Q1 and Q2 in turn.
Questions(n) == [i \in 1..n |-> IF i % 2 = 1 THEN Q1 ELSE Q2]
QuestionLists == {Questions(n) : n \in 0..MaxQuestions}

\* A response of POST /api/quiz; hasQuestions = FALSE is a body with no `questions`.
Payload(id, subject, qs) ==
    [quiz_id |-> id, subject |-> subject, hasQuestions |-> TRUE, questions |-> qs]
NoQuestions(subject) ==
    [quiz_id |-> 0, subject |-> subject, hasQuestions |-> FALSE, questions |-> <<>>]

\* ------------------------------------------------------------- helpers
Remove(s, i) == [j \in 1..(Len(s) - 1) |-> IF j < i THEN s[j] ELSE s[j + 1]]

\* A value of lastEvent: the handler, what it did, whether it opened the
\* confirm dialog, the kind of toast it showed ("" for none), and in args the
\* arguments of selectAnswer or the answer given to the confirm dialog.
Ev(op, outcome, asked, toast) ==
    [op |-> op, outcome |-> outcome, asked |-> asked, toast |-> toast, args |-> <<>>]

\* clearInterval(handle): a null or stale handle clears nothing.
clearInterval(table, handle) ==
    IF handle # None /\ handle[1] \in DOMAIN table
    THEN [i \in DOMAIN table \ {handle[1]} |-> table[i]]
    ELSE table

ArraySetPush(array, index, value) == Append(array, value)

\* array[index] = value on a JavaScript array: a write past the end grows the
\* array and leaves holes below the index.
ArraySet(array, index, value) ==
    [j \in 1..(IF index > Len(array) THEN index ELSE Len(array)) |->
        IF j = index THEN value
        ELSE IF j <= Len(array) THEN array[j] ELSE Hole]

NullArrayOffByOne(n) == [j \in 1..(n + 1) |-> Null]

\* new Array(n).fill(null)
NullArray(n) == [j \in 1..n |-> Null]

\* array[index] read: undefined outside the array.
ArrayGet(array, index) ==
    IF index \in 1..Len(array) THEN array[index] ELSE Hole

\* The document before any handler has run: the setup form alone is visible.
\* setup, loading, quiz, results, error: whether #quiz-setup, #loading,
\* #quiz-container, #results-section, #error-section are displayed;
\* rendered: the questions whose radio inputs #questions-container holds;
\* timer: the seconds #timer shows; shown: what the results section holds.
InitDom ==
    [setup |-> TRUE, loading |-> FALSE, quiz |-> FALSE, results |-> FALSE,
     error |-> FALSE, errorText |-> "", subjectDisplay |-> "", rendered |-> None,
     timer |-> 0, shown |-> None]

\* quiz.js:3-6 and the page as loaded: no quiz, nothing in flight.
\* The query page before any handler has run: loading, answer, error: whether
\* #loading, #answer-section, #error-section are displayed; answerFor, errorFor:
\* the request whose result #answer-text holds, whose error #error-section holds.
InitQueryDom ==
    [loading |-> FALSE, answer |-> FALSE, error |-> FALSE, answerFor |-> None,
     errorFor |-> None]

InitQuery ==
    /\ asks = <<>>
    /\ asksIssued = 0
    /\ queryDom = InitQueryDom
    /\ formWasReset = FALSE

InitPage ==
    /\ currentQuiz = None
    /\ currentAnswers = <<>>
    /\ quizStartTime = None
    /\ timerInterval = None
    /\ intervals = <<>>
    /\ intervalsIssued = 0
    /\ now = 0
    /\ pending = <<>>
    /\ quizzesIssued = 0
    /\ reports = <<>>
    /\ dom = InitDom
    /\ lastEvent = Ev("load", "", FALSE, "")
    /\ submitted = FALSE
    /\ events = 0
    /\ InitQuery

Init == InitPage /\ input = None

\* ------------------------------------------------------ pure parts of submit
\* quiz.js:101  currentAnswers.filter(a => a === null).length
RECURSIVE Unanswered(_)
Unanswered(answers) ==
    IF answers = <<>> THEN 0
    ELSE (IF Head(answers) = Null THEN 1 ELSE 0) + Unanswered(Tail(answers))

\* quiz.js:112  currentQuiz.questions.map(q => q.correct)
CorrectAnswers(questions) == [i \in 1..Len(questions) |-> questions[i].correct]

\* quiz.js:111-118  the forEach loop from index i on, score so far acc.
RECURSIVE ScoreFrom(_, _, _, _)
ScoreFrom(answers, correctAnswers, i, acc) ==
    IF i > Len(answers) THEN acc
    ELSE ScoreFrom(answers, correctAnswers, i + 1,
                   IF answers[i] # Hole /\ answers[i] = ArrayGet(correctAnswers, i)
                   THEN acc + 1 ELSE acc)

ScoreStartsAtOne(answers, correctAnswers) == ScoreFrom(answers, correctAnswers, 1, 1)

ScoreCountsAnswered(answers, correctAnswers) ==
    Cardinality({i \in 1..Len(answers) : answers[i] \notin {Null, Hole}})

Score(answers, correctAnswers) == ScoreFrom(answers, correctAnswers, 1, 0)

ProceedsUnasked(unanswered, confirmOk) == TRUE

\* quiz.js:102-106  whether submitQuiz goes on past the check of unanswered
\* questions: it asks only when some are unanswered, and returns on a "no".
Proceeds(unanswered, confirmOk) == unanswered = 0 \/ confirmOk

TimeTakenMs(clock, start) ==
    clock - (IF start = None THEN 0 ELSE start[1])

\* quiz.js:120  Math.floor((Date.now() - quizStartTime) / 1000); null counts as 0.
TimeTaken(clock, start) ==
    (clock - (IF start = None THEN 0 ELSE start[1])) \div MsPerSecond

\* quiz.js:144  (score / total * 100).toFixed(1): the decimal string, as its
\* integer part and its one decimal digit; 0 / 0 gives the string "NaN".
\* toFixed rounds to the nearest tenth, a tie upwards.  The quotient is taken
\* exactly here; the code takes it in doubles, which differs only for a
\* quotient exactly halfway between two tenths (total a multiple of 16).
toFixed1(score, total) ==
    IF total = 0 THEN [nan |-> TRUE, int |-> 0, frac |-> 0]
    ELSE LET tenths == (2000 * score + total) \div (2 * total)
         IN [nan |-> FALSE, int |-> tenths \div 10, frac |-> tenths % 10]

\* percentage >= n with percentage a string: the string is converted to a
\* number, and every comparison with NaN is false.
AtLeast(percentage, n) ==
    ~percentage.nan /\ 10 * percentage.int + percentage.frac >= 10 * n

\* quiz.js:155-162
ResultMessage(percentage) ==
    IF AtLeast(percentage, ExcellentMin) THEN "excellent"
    ELSE IF AtLeast(percentage, GoodMin) THEN "good"
    ELSE "needs practice"

OptionText(q, key) ==
    IF key \in DOMAIN q.options THEN q.options[key] ELSE "undefined"

displayAnswerReviewMarksAnswered(quiz, answers) ==
    [i \in 1..Len(quiz.questions) |->
        LET q == quiz.questions[i]
            userAnswer == ArrayGet(answers, i)
        IN [isCorrect |-> userAnswer \notin {Null, Hole, ""},
            yourAnswer |-> IF userAnswer \in {Null, Hole, ""} THEN NotAnswered
                           ELSE OptionText(q, userAnswer),
            correctAnswer |-> OptionText(q, q.correct),
            explanation |-> q.explanation]]

\* quiz.js:171-200  one review item per question.
displayAnswerReview(quiz, answers) ==
    [i \in 1..Len(quiz.questions) |->
        LET q == quiz.questions[i]
            userAnswer == ArrayGet(answers, i)
        IN [isCorrect |-> userAnswer = q.correct,
            yourAnswer |-> IF userAnswer \in {Null, Hole, ""} THEN NotAnswered
                           ELSE OptionText(q, userAnswer),
            correctAnswer |-> OptionText(q, q.correct),
            explanation |-> q.explanation]]

\* quiz.js:143-169  what displayResults writes to the results section.
displayResults(score, total, timeTaken, quiz, answers) ==
    LET percentage == toFixed1(score, total)
    IN [score |-> score, total |-> total, percentage |-> percentage,
        time |-> timeTaken, message |-> ResultMessage(percentage),
        review |-> displayAnswerReview(quiz, answers)]

\* quiz.js:219-225
showError(d, message) ==
    [d EXCEPT !.errorText = message, !.error = TRUE, !.loading = FALSE, !.setup = TRUE]

\* ---------------------------------------------------------------- actions
\* Every action handles one event; a run handles at most MaxEvents of them.
Counted == events < MaxEvents /\ events' = events + 1

\* quiz.js:13-33  the submit handler of #quiz-form, up to the await.
generateQuiz(subject, rawNum) ==
    LET numQuestions == parseInt(rawNum)
    IN /\ Counted
       /\ IF subject = ""
          THEN /\ lastEvent' = Ev("generateQuiz", "invalid", FALSE, "warning")
               /\ UNCHANGED <<session, intervals, intervalsIssued, now, pending,
                              quizzesIssued, reports, dom, submitted, input, queryVars>>
          ELSE /\ Len(pending) < MaxPending
               /\ dom' = [dom EXCEPT !.setup = FALSE, !.loading = TRUE, !.quiz = FALSE]
               /\ pending' = Append(pending, [subject |-> subject,
                                              num_questions |-> numQuestions])
               /\ lastEvent' = Ev("generateQuiz", "requested", FALSE, "")
               /\ UNCHANGED <<session, intervals, intervalsIssued, now, quizzesIssued,
                              reports, submitted, input, queryVars>>

\* quiz.js:89-95  startTimer(): a new interval whose closure counts from 0.
startTimer(table, issued) == table @@ ((issued + 1) :> 0)

\* quiz.js:35-42  the await of request r gave a payload with questions qs.
quizLoaded(r, qs) ==
    LET result == Payload(quizzesIssued + 1, pending[r].subject, qs)
    IN /\ Counted
       /\ quizzesIssued < MaxSessions
       /\ pending' = Remove(pending, r)
       /\ quizzesIssued' = quizzesIssued + 1
       /\ currentQuiz' = Some(result)
       /\ currentAnswers' = NullArray(Len(result.questions))
       /\ quizStartTime' = Some(now)
       /\ dom' = [dom EXCEPT !.subjectDisplay = result.subject, !.rendered = Some(result),
                             !.loading = FALSE, !.quiz = TRUE]
       /\ intervals' = startTimer(intervals, intervalsIssued)
       /\ intervalsIssued' = intervalsIssued + 1
       /\ timerInterval' = Some(intervalsIssued + 1)
       /\ submitted' = FALSE
       /\ lastEvent' = Ev("quizLoaded", "displayed", FALSE, "")
       /\ UNCHANGED <<now, reports, input, queryVars>>

\* quiz.js:35-36, 44-47  the payload has no `questions`: line 35 has assigned
\* currentQuiz when line 36 throws, and the catch block runs.
quizMalformed(r) ==
    /\ Counted
    /\ pending' = Remove(pending, r)
    /\ currentQuiz' = Some(NoQuestions(pending[r].subject))
    /\ dom' = showError([dom EXCEPT !.loading = FALSE], "Error generating quiz")
    /\ lastEvent' = Ev("quizMalformed", "error", FALSE, "")
    /\ UNCHANGED <<currentAnswers, quizStartTime, timerInterval, intervals,
                   intervalsIssued, now, quizzesIssued, reports, submitted, input, queryVars>>

\* quiz.js:30, 44-47  apiCall threw: the catch block runs.
quizFailed(r) ==
    /\ Counted
    /\ pending' = Remove(pending, r)
    /\ dom' = showError([dom EXCEPT !.loading = FALSE], "Error generating quiz")
    /\ lastEvent' = Ev("quizFailed", "error", FALSE, "")
    /\ UNCHANGED <<session, intervals, intervalsIssued, now, quizzesIssued,
                   reports, submitted, input, queryVars>>

selectAnswerTampers(questionIndex, answer) ==
    /\ Counted
    /\ currentAnswers' = ArraySet(currentAnswers, questionIndex, answer)
    /\ currentQuiz' = IF currentQuiz # None /\ questionIndex \in DOMAIN currentQuiz[1].questions
                      THEN Some([currentQuiz[1] EXCEPT !.questions[questionIndex].correct = answer])
                      ELSE currentQuiz
    /\ lastEvent' = [Ev("selectAnswer",
                        IF ArrayGet(currentAnswers, questionIndex) \in {Null, Hole}
                        THEN "set" ELSE "replaced", FALSE, "")
                     EXCEPT !.args = <<questionIndex, answer>>]
    /\ UNCHANGED <<quizStartTime, timerInterval, intervals, intervalsIssued, now,
                   pending, quizzesIssued, reports, dom, submitted, input, queryVars>>

\* quiz.js:85-87, wired by quiz.js:64-66: the radio input of option `answer`
\* of rendered question questionIndex changed.
selectAnswer(questionIndex, answer) ==
    /\ Counted
    /\ currentAnswers' = ArraySet(currentAnswers, questionIndex, answer)
    /\ lastEvent' = [Ev("selectAnswer",
                        IF ArrayGet(currentAnswers, questionIndex) \in {Null, Hole}
                        THEN "set" ELSE "replaced", FALSE, "")
                     EXCEPT !.args = <<questionIndex, answer>>]
    /\ UNCHANGED <<currentQuiz, quizStartTime, timerInterval, intervals,
                   intervalsIssued, now, pending, quizzesIssued, reports, dom,
                   submitted, input, queryVars>>

\* quiz.js:91-94  the callback of interval id.
timerTick(id) ==
    /\ Counted
    /\ intervals[id] < MaxSeconds
    /\ intervals' = [intervals EXCEPT ![id] = @ + 1]
    /\ dom' = [dom EXCEPT !.timer = intervals[id] + 1]
    /\ lastEvent' = Ev("timerTick", "", FALSE, "")
    /\ UNCHANGED <<session, intervalsIssued, now, pending, quizzesIssued, reports,
                   submitted, input, queryVars>>

\* apiCall(endpoint, method, data) of main.js, for POST /api/submit-quiz: the
\* request in flight.  Its body is `data` as JSON text, written when the call
\* is made (an empty array slot reads as null); its response comes later.
apiCall(data) ==
    [body |-> [data EXCEPT !.answers =
                   [j \in DOMAIN data.answers |->
                       IF data.answers[j] = Hole THEN Null ELSE data.answers[j]]],
     status |-> "pending"]

saveQuizResultAwaited(quiz, answers, correctAnswers, timeTaken) ==
    [body |-> [quiz_id |-> quiz.quiz_id, subject |-> quiz.subject, answers |-> answers,
               correct_answers |-> correctAnswers, time_taken |-> timeTaken],
     status |-> "saved"]

\* quiz.js:129-137  the request saveQuizResult sends before its await.
saveQuizResult(quiz, answers, correctAnswers, timeTaken) ==
    apiCall([quiz_id |-> quiz.quiz_id, subject |-> quiz.subject, answers |-> answers,
             correct_answers |-> correctAnswers, time_taken |-> timeTaken])

\* quiz.js:100-127  submitQuiz() past its first check: currentQuiz is set;
\* confirmOk is the answer to the confirm dialog, when it is opened.
submitCurrentQuiz(confirmOk) ==
    LET quiz == currentQuiz[1]
        asked == Unanswered(currentAnswers) > 0
        Did(outcome, toast) ==
            [Ev("submitQuiz", outcome, asked, toast)
             EXCEPT !.args = IF asked THEN <<confirmOk>> ELSE <<>>]
    IN IF ~Proceeds(Unanswered(currentAnswers), confirmOk)
       THEN /\ lastEvent' = Did("declined", "")
            /\ UNCHANGED <<session, intervals, intervalsIssued, now, pending,
                           quizzesIssued, reports, dom, submitted, input, queryVars>>
       ELSE /\ intervals' = clearInterval(intervals, timerInterval)
            /\ IF ~quiz.hasQuestions
               THEN /\ lastEvent' = Did("threw", "")
                    /\ UNCHANGED <<reports, dom, submitted>>
               ELSE LET correctAnswers == CorrectAnswers(quiz.questions)
                        score == Score(currentAnswers, correctAnswers)
                        timeTaken == TimeTaken(now, quizStartTime)
                    IN /\ Len(reports) < MaxReports
                       /\ reports' = Append(reports, saveQuizResult(quiz, currentAnswers,
                                                        correctAnswers, timeTaken))
                       /\ dom' = [dom EXCEPT
                                    !.quiz = FALSE, !.results = TRUE,
                                    !.shown = Some(displayResults(score, Len(quiz.questions),
                                                     timeTaken, quiz, currentAnswers))]
                       /\ submitted' = TRUE
                       /\ lastEvent' = Did("submitted", "success")
            /\ UNCHANGED <<session, intervalsIssued, now, pending, quizzesIssued, input, queryVars>>

submitQuizUnguarded(confirmOk) ==
    /\ Counted
    /\ IF currentQuiz = None
       THEN /\ intervals' = clearInterval(intervals, timerInterval)
            /\ lastEvent' = Ev("submitQuiz", "threw", FALSE, "")
            /\ UNCHANGED <<session, intervalsIssued, now, pending, quizzesIssued,
                           reports, dom, submitted, input, queryVars>>
       ELSE submitCurrentQuiz(confirmOk)

\* quiz.js:97-127  submitQuiz(): `if (!currentQuiz) return;` (quiz.js:98), then
\* the rest of the handler.
submitQuiz(confirmOk) ==
    /\ Counted
    /\ IF currentQuiz = None
       THEN /\ lastEvent' = Ev("submitQuiz", "no quiz", FALSE, "")
            /\ UNCHANGED <<session, intervals, intervalsIssued, now, pending,
                           quizzesIssued, reports, dom, submitted, input, queryVars>>
       ELSE submitCurrentQuiz(confirmOk)

\* quiz.js:131-137  the await of report j returned.
reportSaved(j) ==
    /\ Counted
    /\ reports[j].status = "pending"
    /\ reports' = [reports EXCEPT ![j].status = "saved"]
    /\ lastEvent' = Ev("reportSaved", "", FALSE, "")
    /\ UNCHANGED <<session, intervals, intervalsIssued, now, pending, quizzesIssued,
                   dom, submitted, input, queryVars>>

reportFailedShown(j) ==
    /\ Counted
    /\ reports[j].status = "pending"
    /\ reports' = [reports EXCEPT ![j].status = "logged"]
    /\ dom' = showError(dom, "Error saving quiz result")
    /\ lastEvent' = Ev("reportFailed", "", FALSE, "")
    /\ UNCHANGED <<session, intervals, intervalsIssued, now, pending, quizzesIssued,
                   submitted, input, queryVars>>

\* quiz.js:138-140  the await of report j threw: console.error, nothing else.
reportFailed(j) ==
    /\ Counted
    /\ reports[j].status = "pending"
    /\ reports' = [reports EXCEPT ![j].status = "logged"]
    /\ lastEvent' = Ev("reportFailed", "", FALSE, "")
    /\ UNCHANGED <<session, intervals, intervalsIssued, now, pending, quizzesIssued,
                   dom, submitted, input, queryVars>>

\* quiz.js:202-217
resetQuiz ==
    /\ Counted
    /\ currentQuiz' = None
    /\ currentAnswers' = <<>>
    /\ quizStartTime' = None
    /\ intervals' = clearInterval(intervals, timerInterval)
    /\ dom' = [dom EXCEPT !.setup = TRUE, !.results = FALSE, !.quiz = FALSE,
                          !.loading = FALSE]
    /\ submitted' = FALSE
    /\ lastEvent' = Ev("resetQuiz", "", FALSE, "info")
    /\ UNCHANGED <<timerInterval, intervalsIssued, now, pending, quizzesIssued,
                   reports, input, queryVars>>

\* Half a second passes.
clockAdvance ==
    /\ Counted
    /\ 2 * (now + MsPerSecond \div 2) <= MaxHalfSeconds * MsPerSecond
    /\ now' = now + MsPerSecond \div 2
    /\ lastEvent' = Ev("clockAdvance", "", FALSE, "")
    /\ UNCHANGED <<session, intervals, intervalsIssued, pending, quizzesIssued,
                   reports, dom, submitted, input, queryVars>>

\* quiz.js:56-72  the radio inputs the document holds, one per option of each
\* rendered question, as the arguments its onchange gives to selectAnswer.
RenderedInputs ==
    IF dom.rendered = None THEN {}
    ELSE LET qs == dom.rendered[1].questions
         IN UNION {{<<i, k>> : k \in DOMAIN qs[i].options} : i \in 1..Len(qs)}

Next ==
    \/ \E subject \in SubjectInputs, rawNum \in NumInputs : generateQuiz(subject, rawNum)
    \/ \E r \in 1..Len(pending), qs \in QuestionLists : quizLoaded(r, qs)
    \/ \E r \in 1..Len(pending) : quizMalformed(r)
    \/ \E r \in 1..Len(pending) : quizFailed(r)
    \/ \E in \in RenderedInputs : selectAnswer(in[1], in[2])
    \/ \E id \in DOMAIN intervals : timerTick(id)
    \/ \E confirmOk \in BOOLEAN : submitQuiz(confirmOk)
    \/ \E j \in 1..Len(reports) : reportSaved(j)
    \/ \E j \in 1..Len(reports) : reportFailed(j)
    \/ resetQuiz
    \/ clockAdvance

Spec == Init /\ [][Next]_vars

\* ------------------------------------------- displayResults on its own
\* The banding of displayResults for every score out of every total up to
\* MaxTotal: input holds the arguments, then the message chosen for them.
InitBand ==
    /\ InitPage
    /\ \E total \in 1..MaxTotal, score \in 0..MaxTotal :
          /\ score <= total
          /\ input = Some([score |-> score, total |-> total, message |-> ""])

bandResult ==
    /\ input # None
    /\ input[1].message = ""
    /\ input' = Some([input[1] EXCEPT
                        !.message = ResultMessage(toFixed1(input[1].score, input[1].total))])
    /\ UNCHANGED <<session, intervals, intervalsIssued, now, pending, quizzesIssued,
                   reports, dom, lastEvent, submitted, events,
                   queryVars>>

NextBand == bandResult

SpecBand == InitBand /\ [][NextBand]_vars

\* ------------------------------------------------------- the query page
\* query.js:18-19  what the subject select and the question field may hold.
QuestionInputs == {"", "What is a key?"}

\* query.js:47-79  displayAnswer(result): the answer section holds the result
\* of request id.
displayAnswer(d, id) == [d EXCEPT !.answerFor = Some(id)]

\* query.js:88-93  showError(message): the error section holds the error of
\* request id and is displayed.
queryShowError(d, id) == [d EXCEPT !.errorFor = Some(id), !.error = TRUE]

\* query.js:15-36  askQuestion(e) up to its await: the validation, the three
\* display writes and the request.
askQuestion(subject, question) ==
    /\ Counted
    /\ IF subject = "" \/ question = ""
       THEN /\ lastEvent' = Ev("askQuestion", "invalid", FALSE, "warning")
            /\ UNCHANGED queryVars
       ELSE /\ asksIssued < MaxAsks
            /\ queryDom' = [queryDom EXCEPT !.loading = TRUE, !.answer = FALSE,
                                            !.error = FALSE]
            /\ asks' = Append(asks, [id |-> asksIssued + 1, question |-> question,
                                     subject |-> subject, top_k |-> TopK])
            /\ asksIssued' = asksIssued + 1
            /\ lastEvent' = [Ev("askQuestion", "requested", FALSE, "")
                             EXCEPT !.args = <<asksIssued + 1>>]
            /\ UNCHANGED formWasReset
    /\ UNCHANGED quizVars

\* query.js:32, 38-40  the await of request r returned a result.
askAnswered(r) ==
    /\ Counted
    /\ asks' = Remove(asks, r)
    /\ queryDom' = [displayAnswer(queryDom, asks[r].id) EXCEPT !.loading = FALSE,
                                                              !.answer = TRUE]
    /\ lastEvent' = [Ev("askAnswered", "displayed", FALSE, "")
                     EXCEPT !.args = <<asks[r].id>>]
    /\ UNCHANGED <<asksIssued, formWasReset, quizVars>>

\* query.js:32, 41-44  the await of request r threw (or displayAnswer threw on
\* a null result, before it wrote anything): the catch block runs.
askFailed(r) ==
    /\ Counted
    /\ asks' = Remove(asks, r)
    /\ queryDom' = queryShowError([queryDom EXCEPT !.loading = FALSE], asks[r].id)
    /\ lastEvent' = [Ev("askFailed", "error", FALSE, "danger")
                     EXCEPT !.args = <<asks[r].id>>]
    /\ UNCHANGED <<asksIssued, formWasReset, quizVars>>

\* query.js:81-86  resetForm(): the three sections are hidden; a request in
\* flight stays in flight.
resetForm ==
    /\ Counted
    /\ queryDom' = [queryDom EXCEPT !.answer = FALSE, !.loading = FALSE, !.error = FALSE]
    /\ formWasReset' = TRUE
    /\ lastEvent' = Ev("resetForm", "", FALSE, "")
    /\ UNCHANGED <<asks, asksIssued, quizVars>>

NextQuery ==
    \/ \E subject \in SubjectInputs, question \in QuestionInputs : askQuestion(subject, question)
    \/ \E r \in 1..Len(asks) : askAnswered(r)
    \/ \E r \in 1..Len(asks) : askFailed(r)
    \/ resetForm

SpecQuery == Init /\ [][NextQuery]_vars

\* ----------------------------------------------------------------- claims
\* The present payload is a quiz with questions: a session exists.
HasSession == currentQuiz # None /\ currentQuiz[1].hasQuestions

JustSubmitted == lastEvent.op = "submitQuiz" /\ lastEvent.outcome = "submitted"

\* The indices at which the answer is the question's correct key.
Matches(answers, questions) ==
    {i \in (DOMAIN answers) \cap (DOMAIN questions) : answers[i] = questions[i].correct}

\* C1: right after a submit that was honoured, the score shown is the number
\* of indices whose recorded answer equals the question's correct key (so an
\* unanswered or wrong entry adds nothing and a right one adds exactly one).
C1_ScoreIsCountOfMatches ==
    JustSubmitted =>
        dom.shown[1].score = Cardinality(Matches(currentAnswers, currentQuiz[1].questions))

\* A submit of two questions, one right and one unanswered, scored 1.
C1_Witness ==
    /\ JustSubmitted
    /\ Len(currentAnswers) = 2
    /\ currentAnswers[1] = "A"
    /\ currentAnswers[2] = Null
    /\ dom.shown[1].score = 1

\* C2: once a submit has been honoured, and until the session is reset or
\* replaced, no event changes the answers.
C2_FrozenAfterSubmit ==
    [][submitted /\ submitted' => currentAnswers' = currentAnswers]_vars

\* No quiz, no answers, no start time and no interval running.
NoSessionData ==
    /\ currentQuiz = None
    /\ currentAnswers = <<>>
    /\ quizStartTime = None
    /\ intervals = <<>>

\* C3: a reset leaves no session data and no running interval, and the event
\* that follows a reset, unless it is a new start, leaves it so.
C3_ResetStaysIdle ==
    [][lastEvent'.op = "resetQuiz" \/
       (lastEvent.op = "resetQuiz" /\ NoSessionData /\ lastEvent'.op # "generateQuiz")
         => NoSessionData']_vars

\* C4: at most one generation request is outstanding.
C4_OneGenerationPending == Len(pending) <= 1

\* C5: while a session exists, answers has one entry per question, each null
\* or a key of the options of the question at its index.
C5_AnswersMatchQuestions ==
    HasSession =>
        LET questions == currentQuiz[1].questions
        IN /\ Len(currentAnswers) = Len(questions)
           /\ \A i \in 1..Len(questions) :
                 currentAnswers[i] = Null \/ currentAnswers[i] \in DOMAIN questions[i].options

\* A submitted session of two questions, one answered and one not.
C5_Witness ==
    /\ HasSession
    /\ submitted
    /\ Len(currentQuiz[1].questions) = 2
    /\ currentAnswers = <<Null, "C">>

\* C6: a submit of a session with an unanswered question opens the confirm
\* dialog, and on a "no" leaves the session, the intervals, the reports and the
\* document as they were; a submit of a session with every question answered
\* opens no dialog and is honoured.
C6_ConfirmGate ==
    [][lastEvent'.op = "submitQuiz" /\ HasSession =>
         IF Unanswered(currentAnswers) > 0
         THEN /\ lastEvent'.asked
              /\ lastEvent'.args = <<TRUE>> => lastEvent'.outcome = "submitted" /\ submitted'
              /\ lastEvent'.args = <<FALSE>> =>
                    /\ lastEvent'.outcome = "declined"
                    /\ UNCHANGED <<session, intervals, reports, dom, submitted>>
         ELSE /\ ~lastEvent'.asked
              /\ lastEvent'.outcome = "submitted"
              /\ submitted']_vars

\* A declined submit: the session is there, unsubmitted, its interval running.
C6_Witness ==
    /\ lastEvent.op = "submitQuiz"
    /\ lastEvent.outcome = "declined"
    /\ lastEvent.args = <<FALSE>>
    /\ HasSession
    /\ ~submitted
    /\ reports = <<>>
    /\ timerInterval # None
    /\ timerInterval[1] \in DOMAIN intervals

\* C7: the response to a report, success or failure, changes only that
\* report's status: the session, the intervals, the requests and the document
\* (score, review, error section) stay as they were.
C7_ReportOutcomeIsolated ==
    [][lastEvent'.op \in {"reportSaved", "reportFailed"} =>
         /\ UNCHANGED <<session, intervals, pending, dom, submitted>>
         /\ Len(reports') = Len(reports)
         /\ \A j \in 1..Len(reports) : reports'[j].body = reports[j].body]_vars

\* A report has failed: the results are on screen, with the score, and no error.
C7_Witness ==
    /\ lastEvent.op = "reportFailed"
    /\ \E j \in 1..Len(reports) : reports[j].status = "logged"
    /\ dom.results
    /\ dom.shown # None
    /\ dom.shown[1].score = 1
    /\ ~dom.error

\* C8: the band is decided by the exact percentage 100 * score / total.
C8_BandByExactPercentage ==
    (input # None /\ input[1].message # "") =>
        LET score == input[1].score
            total == input[1].total
            message == input[1].message
        IN /\ message = "excellent" <=> 100 * score >= ExcellentMin * total
           /\ message = "good" <=>
                 (GoodMin * total <= 100 * score /\ 100 * score < ExcellentMin * total)
           /\ message = "needs practice" <=> 100 * score < GoodMin * total

\* C9: selecting key k for question i of a session sets answers[i] to k,
\* whatever it held, and changes no other entry, nor the length, the quiz, the
\* start time, the timer, the requests or the document.
C9_SelectSetsOneEntry ==
    [][lastEvent'.op = "selectAnswer" /\ HasSession =>
         LET i == lastEvent'.args[1]
             k == lastEvent'.args[2]
         IN /\ i \in 1..Len(currentAnswers)
            /\ currentAnswers' = [currentAnswers EXCEPT ![i] = k]
            /\ UNCHANGED <<currentQuiz, quizStartTime, timerInterval, intervals,
                           intervalsIssued, now, pending, reports, dom, submitted>>]_vars

\* A second selection for question 1 replaced the first, question 2 kept its own.
C9_Witness ==
    /\ lastEvent.op = "selectAnswer"
    /\ lastEvent.outcome = "replaced"
    /\ lastEvent.args = <<1, "B">>
    /\ HasSession
    /\ ~submitted
    /\ currentAnswers = <<"B", "C">>

\* C10: every generation request issued carries a positive question count.
C10_RequestsCarryPositiveCount ==
    \A r \in 1..Len(pending) :
        pending[r].num_questions # None /\ pending[r].num_questions[1] > 0

\* C11: when a generation fails on a page that holds no session, the error
\* section is shown and the page still holds no session: no quiz, no answers,
\* no start time, no interval running.
C11_FailedGenerationLeavesNoSession ==
    [][(lastEvent'.op \in {"quizFailed", "quizMalformed"} /\ NoSessionData)
          => (NoSessionData' /\ dom'.error /\ dom'.setup)]_vars

\* C12: at most one interval is running, and timerInterval is its handle.
C12_AtMostOneInterval ==
    /\ Cardinality(DOMAIN intervals) <= 1
    /\ intervals # <<>> => (timerInterval # None /\ DOMAIN intervals = {timerInterval[1]})

\* C13: the timer ticks only while a session is being answered: no tick occurs
\* once the session has been submitted or the page has been reset.
C13_TicksOnlyWhileAnswering ==
    [][lastEvent'.op = "timerTick" => (currentQuiz # None /\ ~submitted)]_vars

\* C14: a session is submitted at most once, so no two reports are sent for
\* the same quiz.
C14_OneReportPerSession ==
    \A i, j \in DOMAIN reports :
        reports[i].body.quiz_id = reports[j].body.quiz_id => i = j

\* C15: right after a generation response is displayed, the session is the
\* new one only: every answer is unanswered and there is one per question,
\* the start time is the time of the response, and the one interval running
\* is the new session's.
C15_LoadedSessionReplacesPrevious ==
    lastEvent.op = "quizLoaded" =>
        /\ currentAnswers = NullArray(Len(currentQuiz[1].questions))
        /\ quizStartTime = Some(now)
        /\ timerInterval # None
        /\ DOMAIN intervals = {timerInterval[1]}

\* C16: the results are shown in the step of the confirmed submit, while the
\* report sent by that step is still unanswered; a report is only ever
\* answered after results were shown.
C16_ResultsBeforeReportCompletes ==
    /\ JustSubmitted =>
          /\ dom.results
          /\ dom.shown # None
          /\ reports # <<>>
          /\ reports[Len(reports)].status = "pending"
    /\ \A j \in 1..Len(reports) : reports[j].status # "pending" => dom.shown # None

\* The results are on screen and the report of that submit has no response.
C16_Witness ==
    /\ JustSubmitted
    /\ dom.results
    /\ dom.shown # None
    /\ Len(reports) = 1
    /\ reports[1].status = "pending"

\* C17: the report sent by a confirmed submit carries the session's id and
\* subject, the answers as they are at the submit, the correct keys in
\* question order and the whole seconds elapsed since the start; both lists
\* have one entry per question; no later step changes a report already sent.
C17_ReportCarriesSubmittedSession ==
    [][/\ (lastEvent'.op = "submitQuiz" /\ lastEvent'.outcome = "submitted") =>
              LET quiz == currentQuiz[1]
                  body == reports'[Len(reports')].body
                  elapsed == now - quizStartTime[1]
              IN /\ Len(reports') = Len(reports) + 1
                 /\ body.quiz_id = quiz.quiz_id
                 /\ body.subject = quiz.subject
                 /\ body.answers = currentAnswers
                 /\ Len(body.answers) = Len(quiz.questions)
                 /\ body.correct_answers = [i \in 1..Len(quiz.questions) |-> quiz.questions[i].correct]
                 /\ quizStartTime # None
                 /\ body.time_taken * MsPerSecond <= elapsed
                 /\ elapsed < (body.time_taken + 1) * MsPerSecond
       /\ Len(reports') >= Len(reports)
       /\ \A j \in 1..Len(reports) : reports'[j].body = reports[j].body]_vars

\* A session of two questions was submitted one second after its start, and
\* an answer selected after the submit has not changed the report.
C17_Witness ==
    /\ lastEvent.op = "selectAnswer"
    /\ submitted
    /\ Len(reports) = 1
    /\ reports[1].body.time_taken = 1
    /\ Len(reports[1].body.correct_answers) = 2
    /\ reports[1].body.answers # currentAnswers

\* C18: selecting an option, a timer tick, a submit (with its scoring, report
\* and review), a report's response and the passing of time leave the quiz of
\* an existing session as it is: the same questions, options and correct keys;
\* a submit also leaves the answers as they are.
C18_QuestionsNeverChange ==
    [][(/\ currentQuiz # None
        /\ lastEvent'.op \in {"selectAnswer", "timerTick", "submitQuiz", "reportSaved",
                              "reportFailed", "clockAdvance"}) =>
          /\ currentQuiz' = currentQuiz
          /\ lastEvent'.op = "submitQuiz" => currentAnswers' = currentAnswers]_vars

\* A session of two questions was answered, timed for a second and submitted:
\* the quiz is still the one that was rendered when the session was created.
C18_Witness ==
    /\ JustSubmitted
    /\ HasSession
    /\ Len(currentQuiz[1].questions) = 2
    /\ \E i \in DOMAIN currentAnswers : currentAnswers[i] = currentQuiz[1].questions[i].correct
    /\ dom.timer = 1
    /\ dom.rendered = currentQuiz
    /\ Len(dom.shown[1].review) = 2

\* C19: the review shown by a submit has one item per question, in question
\* order; item i is marked correct exactly when answer i is the correct key of
\* question i; an unanswered question is marked incorrect and shown as not
\* answered; the number of items marked correct is the score shown.
C19_ReviewMatchesAnswers ==
    JustSubmitted =>
        LET questions == currentQuiz[1].questions
            review == dom.shown[1].review
        IN /\ Len(review) = Len(questions)
           /\ \A i \in 1..Len(questions) :
                 /\ review[i].isCorrect <=> (currentAnswers[i] = questions[i].correct)
                 /\ review[i].correctAnswer = questions[i].options[questions[i].correct]
                 /\ currentAnswers[i] = Null =>
                        (~review[i].isCorrect /\ review[i].yourAnswer = NotAnswered)
                 /\ currentAnswers[i] # Null =>
                        review[i].yourAnswer = questions[i].options[currentAnswers[i]]
           /\ Cardinality({i \in DOMAIN review : review[i].isCorrect}) = dom.shown[1].score

\* A review of two questions: the first was not answered and is marked
\* incorrect, the second was answered rightly and is marked correct.
C19_Witness ==
    /\ JustSubmitted
    /\ Len(dom.shown[1].review) = 2
    /\ dom.shown[1].review[1].yourAnswer = NotAnswered
    /\ ~dom.shown[1].review[1].isCorrect
    /\ currentAnswers[2] = currentQuiz[1].questions[2].correct
    /\ dom.shown[1].review[2].isCorrect
    /\ dom.shown[1].score = 1

\* C20: a submit while no quiz is held (before any generation, after a reset,
\* or while the first generation is loading) returns at once: no confirm
\* dialog is opened, nothing is scored, sent or shown, and the session
\* variables, the intervals and the document stay as they were.
C20_SubmitWithoutSessionIsNoOp ==
    [][(lastEvent'.op = "submitQuiz" /\ currentQuiz = None) =>
          /\ lastEvent'.outcome = "no quiz"
          /\ ~lastEvent'.asked
          /\ lastEvent'.toast = ""
          /\ UNCHANGED <<session, intervals, pending, reports, dom, submitted>>]_vars

\* A submit was requested while the first generation request was loading.
C20_Witness ==
    /\ lastEvent.op = "submitQuiz"
    /\ lastEvent.outcome = "no quiz"
    /\ currentQuiz = None
    /\ Len(pending) = 1
    /\ dom.loading
    /\ reports = <<>>
    /\ dom.shown = None

\* C21: exactly one of the four panels (setup form, loading indicator, quiz
\* container, results section) is visible.
C21_ExactlyOnePanelVisible ==
    Cardinality({p \in {"setup", "loading", "quiz", "results"} : dom[p]}) = 1

\* C22: the score shown by a submit that was honoured is at least 0 and at
\* most the number of questions of the quiz.
C22_ScoreWithinQuestionCount ==
    JustSubmitted =>
        /\ dom.shown[1].score \in 0..Len(currentQuiz[1].questions)
        /\ dom.shown[1].total = Len(currentQuiz[1].questions)

\* Every question of a quiz of two was answered rightly: the score is the
\* number of questions.
C22_Witness ==
    /\ JustSubmitted
    /\ ~lastEvent.asked
    /\ Len(currentQuiz[1].questions) = 2
    /\ dom.shown[1].score = 2
    /\ dom.shown[1].total = 2

\* C23: on the query page, as long as only questions are asked and answered:
\* while a request is outstanding the loading indicator is visible; when none
\* is, the loading indicator is hidden, the answer section and the error
\* section are not both visible, and the visible one holds the outcome of the
\* question asked last.
C23_QueryPanelsFollowLatestAsk ==
    ~formWasReset =>
        /\ asks # <<>> => queryDom.loading
        /\ asks = <<>> =>
              /\ ~queryDom.loading
              /\ ~(queryDom.answer /\ queryDom.error)
              /\ queryDom.answer => queryDom.answerFor = Some(asksIssued)
              /\ queryDom.error => queryDom.errorFor = Some(asksIssued)

====
